---- MODULE Spec2Model ----
(***************************************************************************)
(* The dashboard synchronisation pipeline of shub: the check-run status    *)
(* reduction, the sqlite cache, the bounded concurrent status fetcher, the *)
(* paginated listing streams, the refresh cycle that composes them, and    *)
(* the two text functions: the repository id parser and ellipsize.         *)
(***************************************************************************)
EXTENDS Integers, Sequences, FiniteSets, TLC

\* ------------------------------------------------------------------ bounds
\* Longest check-run list given to the status reduction.
MaxRuns == 3
\* Repositories in the cache when the status fetcher is run on its own.
MaxFetchRepos == 34
\* Remote check-run profiles the status fetcher is run against.
NumProfiles == 2
\* Repository names the remote listing of a refresh cycle draws from.
MaxRepos == 2
\* Refresh cycles run one after the other on the same cache.
MaxCycles == 2
\* Pages of the small remote listings the pagination streams are run against.
MaxPages == 3
\* Requests after which a pagination stream is no longer followed.
MaxRequests == 260
\* Longest batch handed to one put_repositories call.
MaxBatch == 2
\* Longest text handed to the repository id parser and to ellipsize.
MaxText == 5
\* Largest threshold handed to ellipsize.
MaxThreshold == 4

\* --------------------------------------------------------- program constants
\* tokio::sync::mpsc::channel(32)
ChannelCapacity == 32
\* try_for_each_concurrent(2, ..)
ConcurrencyLimit == 2

\* Option::None, in every Option of the program.
None == "None"
\* The sqlite NULL.
NULL == "NULL"
\* AppEnv::github_username
github_username == "me"

\* ------------------------------------------------------------------ types.rs
BuildStatus == {"Success", "Failure", "InProgress"}

\* #[derive(PartialOrd, Ord)] orders the variants as they are declared.
Discriminant(s) ==
    CASE s = "Success" -> 0
      [] s = "Failure" -> 1
      [] s = "InProgress" -> 2

\* An order of Option<BuildStatus> with None above every Some(_).
NoneGreatest(a, b) ==
    \/ b = None
    \/ a # None /\ b # None /\ Discriminant(a) <= Discriminant(b)

\* Option<BuildStatus> is ordered None < Some(_), then by the payload.
OptionLe(a, b) ==
    \/ a = None
    \/ a # None /\ b # None /\ Discriminant(a) <= Discriminant(b)

\* A reduction that keeps the latest value.
max_latest(acc, x) == x

\* std::cmp::max(acc, x): the second argument when the two compare equal.
max(acc, x) == IF OptionLe(acc, x) THEN x ELSE acc

\* impl fmt::Display for BuildStatus
to_string(s) ==
    CASE s = "Success" -> "success"
      [] s = "Failure" -> "failure"
      [] s = "InProgress" -> "in_progress"

\* impl FromStr for BuildStatus (an unexpected string is an error)
from_str(s) ==
    CASE s = "success" -> "Success"
      [] s = "failure" -> "Failure"
      [] s = "in_progress" -> "InProgress"
      [] OTHER -> "ParseBuildStatusError"

\* ------------------------------------------------- check runs, get_build_status
CheckRunStatus == {"queued", "in_progress", "completed", "waiting"}
CheckRunConclusion == {None, "success", "failure", "cancelled"}
GhCheckRun == [status : CheckRunStatus, conclusion : CheckRunConclusion]

\* A closure that passes over a completed run without conclusion.
MapRunUnconcluded(x) ==
    CASE x.status = "queued" -> None
      [] x.status = "in_progress" -> "InProgress"
      [] x.status = "completed" ->
            (IF x.conclusion = "success" THEN "Success"
             ELSE IF x.conclusion = None THEN None ELSE "Failure")
      [] OTHER -> "Failure"

\* The closure of the .map(..) in get_build_status.
MapRun(x) ==
    CASE x.status = "queued" -> None
      [] x.status = "in_progress" -> "InProgress"
      [] x.status = "completed" ->
            (IF x.conclusion = "success" THEN "Success" ELSE "Failure")
      [] OTHER -> "Failure"

RECURSIVE Fold(_, _)
Fold(acc, xs) ==
    IF xs = <<>> THEN acc ELSE Fold(max(acc, MapRun(Head(xs))), Tail(xs))

\* runs.iter().map(..).reduce(|acc, x| max(acc, x)): Option<Option<BuildStatus>>
Reduce(runs) ==
    IF runs = <<>>
    THEN [some |-> FALSE, val |-> None]
    ELSE [some |-> TRUE, val |-> Fold(MapRun(Head(runs)), Tail(runs))]

\* Option::flatten
Flatten(o) == IF o.some THEN o.val ELSE None

\* What the remote answers for one repository: the latest commit
\* (get_latest_commit) and the check runs of that commit
\* (get_check_runs_for_gitref); either call may fail.
CommitErr == [commit |-> "Err", check_runs |-> "Ok", runs |-> <<>>]
NoCommit == [commit |-> "None", check_runs |-> "Ok", runs |-> <<>>]
RunsErr == [commit |-> "Some", check_runs |-> "Err", runs |-> <<>>]
Runs(rs) == [commit |-> "Some", check_runs |-> "Ok", runs |-> rs]

\* get_build_status: Result<Option<BuildStatus>, Error>
get_build_status(resp) ==
    IF resp.commit = "Err" \/ (resp.commit = "Some" /\ resp.check_runs = "Err")
    THEN [ok |-> FALSE, val |-> None]
    ELSE IF resp.commit = "None"
         THEN [ok |-> TRUE, val |-> None]
         ELSE [ok |-> TRUE, val |-> Flatten(Reduce(resp.runs))]

\* ---------------------------------------------------------------- database.rs
\* A Repository of types.rs.
Repo(owner, name, a_fork, archived, build_status) ==
    [name |-> name, owner |-> owner, a_fork |-> a_fork, archived |-> archived,
     build_status |-> build_status]

\* impl ToSql for BuildStatus, under rusqlite's Option<T>: None is NULL.
ToSql(build_status) ==
    IF build_status = None THEN NULL ELSE to_string(build_status)

\* impl FromSql for BuildStatus, under rusqlite's Option<T>: NULL is None.
FromSql(text) == IF text = NULL THEN None ELSE from_str(text)

\* The row an INSERT of put_repositories writes.
RowOf(r) ==
    [owner |-> r.owner, name |-> r.name, a_fork |-> r.a_fork,
     archived |-> r.archived, build_status |-> ToSql(r.build_status)]

SameKey(row, owner, name) == row.owner = owner /\ row.name = name

\* The INSERT without the conflict clause taking effect: the row is added.
InsertAppends(table, r) == Append(table, RowOf(r))

\* One INSERT under UNIQUE (owner, name) ON CONFLICT REPLACE: the rows that
\* conflict are deleted, the new row gets the next rid (the table's end).
Insert(table, r) ==
    SelectSeq(table, LAMBDA row : ~SameKey(row, r.owner, r.name)) \o <<RowOf(r)>>

RECURSIVE InsertAll(_, _)
InsertAll(table, repositories) ==
    IF repositories = <<>> THEN table
    ELSE InsertAll(Insert(table, Head(repositories)), Tail(repositories))

\* A resync that keeps the listed repositories only.
put_listing_only(table, repositories) == InsertAll(<<>>, repositories)

\* put_repositories: every INSERT in one transaction, then the commit.
put_repositories(table, repositories) == InsertAll(table, repositories)

\* The status written as an upsert of the id's record.
UpdateUpserts(table, id, status) ==
    Insert(table, Repo(id.owner, id.name, id.a_fork, id.archived, status))

\* One UPDATE repositories SET build_status = ? WHERE owner = ? AND name = ?
Update(table, id, status) ==
    [i \in 1..Len(table) |->
        IF SameKey(table[i], id.owner, id.name)
        THEN [table[i] EXCEPT !.build_status = ToSql(status)]
        ELSE table[i]]

RECURSIVE UpdateAll(_, _)
UpdateAll(table, build_statuses) ==
    IF build_statuses = <<>> THEN table
    ELSE UpdateAll(Update(table, Head(build_statuses).r, Head(build_statuses).s),
                   Tail(build_statuses))

\* A set_build_statuses that commits nothing.
set_nothing(table, build_statuses) == table

\* Database::set_build_statuses: every UPDATE in one transaction.
set_build_statuses(table, build_statuses) == UpdateAll(table, build_statuses)

\* The SELECT without its owner = ? condition.
get_any_owner(table, owner) ==
    LET rows == SelectSeq(table, LAMBDA row : ~row.a_fork /\ ~row.archived)
    IN [i \in 1..Len(rows) |->
            Repo(rows[i].owner, rows[i].name, FALSE, FALSE,
                 FromSql(rows[i].build_status))]

\* get_dashboard_repositories: SELECT owner, name, build_status .. WHERE
\* owner = ? AND a_fork = FALSE AND archived = FALSE, in rid order.
get_dashboard_repositories(table, owner) ==
    LET rows == SelectSeq(table, LAMBDA row :
                    row.owner = owner /\ ~row.a_fork /\ ~row.archived)
    IN [i \in 1..Len(rows) |->
            Repo(rows[i].owner, rows[i].name, FALSE, FALSE,
                 FromSql(rows[i].build_status))]

\* ------------------------------------------------------- paginated streams
\* A GhRepository as the listing returns it (owner: the login, or None).
GhRepo(name, owner, fork, archived) ==
    [name |-> name, owner |-> owner, fork |-> fork, archived |-> archived]

\* The items of a stream are Result<T, Error>.
Ok(x) == [ok |-> TRUE, item |-> x]
Err == [ok |-> FALSE, item |-> GhRepo(0, None, FALSE, FALSE)]

\* The three pagination streams: unpage (try_stream!, page_num: Option<u8>),
\* GithubClient2::list_owned_repositories (try_unfold over PageCursor) and
\* list_user_issues (try_unfold over PageNum).
Streams == {"unpage", "list_owned_repositories", "list_user_issues"}

Cursor(tag, n) == [tag |-> tag, n |-> n]

\* let mut page_num = None / PageCursor::default() / PageNum::Init
FirstCursor(s) ==
    CASE s = "unpage" -> Cursor("None", 0)
      [] s = "list_owned_repositories" -> Cursor("Page", 0)
      [] s = "list_user_issues" -> Cursor("Init", 0)

\* The page parameter of the request a cursor makes: absent, or a number.
Param(c) ==
    IF c.tag \in {"None", "Init"}
    THEN [given |-> FALSE, page |-> 0]
    ELSE [given |-> TRUE, page |-> c.n]

\* u8 + 1: past u8::MAX a build with overflow checks panics, one without
\* wraps to 0.
U8Max == 255
AddOne(n) ==
    IF n < U8Max
    THEN {[panic |-> FALSE, n |-> n + 1]}
    ELSE {[panic |-> TRUE, n |-> 0], [panic |-> FALSE, n |-> 0]}

\* The cursor after a page, where the code computes it:
\*   unpage                   page_num = (page_num.unwrap_or(1) + 1).into()
\*   list_owned_repositories  End if page.next.is_none(), else Page(page_num + 1)
\*   list_user_issues         page_num.succ() if page.next is some, else End
AfterPage(s, c, next) ==
    CASE s = "unpage" ->
            {[panic |-> o.panic, cursor |-> Cursor("Some", o.n)] :
                o \in AddOne(IF c.tag = "None" THEN 1 ELSE c.n)}
      [] s = "list_owned_repositories" ->
            IF ~next THEN {[panic |-> FALSE, cursor |-> Cursor("End", 0)]}
            ELSE {[panic |-> o.panic, cursor |-> Cursor("Page", o.n)] :
                    o \in AddOne(c.n)}
      [] s = "list_user_issues" ->
            IF ~next THEN {[panic |-> FALSE, cursor |-> Cursor("End", 0)]}
            ELSE IF c.tag = "Init"
                 THEN {[panic |-> FALSE, cursor |-> Cursor("Num", 1)]}
                 ELSE {[panic |-> o.panic, cursor |-> Cursor("Num", o.n)] :
                         o \in AddOne(c.n)}

\* A stream that goes on past the last page.
NeverExhausted(s, c, next) == FALSE

\* Whether the stream is over once the current page has been yielded:
\* unpage breaks on !has_next, the try_unfold closures return Ok(None) on End.
Exhausted(s, c, next) == IF s = "unpage" THEN ~next ELSE c.tag = "End"

\* A stream that asks for the next page while items of the current one are
\* still to be yielded.
Prefetching(items) == TRUE

\* The streams are pull-based: try_flatten polls try_unfold for the next page
\* only once the inner stream::iter of the current page has ended, and the
\* loop of try_stream! reaches its next req.await only after the for loop
\* over page.items has yielded them all.
Drained(items) == items = <<>>

\* The remote numbers its pages from 1: a request without a page parameter,
\* or with page 0, is answered with page 1.
ServedPage(param) == IF ~param.given \/ param.page < 1 THEN 1 ELSE param.page

\* The remote's answer: the page's items and whether a next page exists
\* (a page past the last one is empty).
Serve(pages, param) ==
    LET p == ServedPage(param) IN
    [page |-> p,
     items |-> IF p <= Len(pages) THEN pages[p] ELSE <<>>,
     next |-> p < Len(pages)]

\* ------------------------------------------------------------------- state
VARIABLES
    runs,       \* the check runs handed to the status reduction
    status,     \* what get_build_status returned for them ("Unset" before)
    answer,     \* how the two requests of get_build_status were answered
    db,         \* the repositories table, in rid order
    pc,         \* where update_dashboard stands
    result,     \* what update_dashboard returned ("None" while it runs)
    ghChecks,   \* the remote's check-run data: a profile, 0 for any data
    repos,      \* update_build_statuses: the repositories read from the cache
    idx,        \* stream::iter(repos): how many items have been taken
    fetching,   \* indices of repos whose get_build_status is in flight
    futures,    \* try_for_each_concurrent: the sends waiting for capacity
    chan,       \* the mpsc channel's buffer
    producer,   \* the spawned producer task: none, running, ok, err
    vs,         \* the collector's vector
    collector,  \* the spawned collector task: none, running, done
    fetched,    \* per index of repos, what its fetch returned
    dbAtFetch,  \* the table as update_build_statuses first read it
    bss,        \* the collection handed to set_build_statuses
    printed,    \* the lines print_dashboard wrote
    cycle,      \* how many refresh cycles have been started
    dbAtStart,  \* the table as the running refresh cycle found it
    stream,     \* which pagination stream is running
    ghPages,    \* the remote listing: its pages, each a sequence of items
    cursor,     \* the stream's cursor (page_num / PageCursor / PageNum)
    has_next,   \* page.next.is_some() of the last page received
    buf,        \* the items of the current page not yet yielded
    spos,       \* the stream: start, awaiting, items, end, panicked
    out,        \* the items the stream has yielded
    requests,   \* the page parameters requested so far
    responses,  \* the answers received so far
    lastPut,    \* per key, the records put for it: the latest two, newest last
    tables,     \* the tables the database file holds
    call,       \* the database call running or last made: op, batch, owner
    tx,         \* the call's transaction: open or not, and its working table
    at,         \* the element of the batch the call executes next, or failed at
    ret,        \* what the last finished database call returned
    text,       \* the string handed to from_str and to ellipsize
    threshold,  \* the threshold handed to ellipsize
    id,         \* what RepositoryId::from_str returned for text
    ellipsized  \* what ellipsize returned for text and threshold

reduceVars == <<runs, status, answer>>
fetchVars == <<ghChecks, repos, idx, fetching, futures, chan, producer, vs,
               collector, fetched, dbAtFetch, bss>>
cycleVars == <<db, pc, result, printed, cycle, dbAtStart>>
pageVars == <<stream, ghPages, cursor, has_next, buf, spos, out, requests,
              responses>>
putVars == <<lastPut>>
dbVars == <<tables, call, tx, at, ret>>
textVars == <<text, threshold, id, ellipsized>>
vars == <<reduceVars, fetchVars, cycleVars, pageVars, putVars, dbVars, textVars>>

\* --------------------------------------------------------- the remote's data
Queued == [status |-> "queued", conclusion |-> None]
Running == [status |-> "in_progress", conclusion |-> None]
Passed == [status |-> "completed", conclusion |-> "success"]
Failed == [status |-> "completed", conclusion |-> "failure"]

\* Under profile 0 the remote may hold anything for a repository and change it
\* at any time.
AnyData ==
    {NoCommit} \cup {Runs(<<>>)}
    \cup {Runs(<<x>>) : x \in GhCheckRun}
    \cup {Runs(<<x, y>>) : x, y \in {Queued, Running, Passed, Failed}}

\* A profile fixes the data per repository: under profile 1 every repository
\* has one passed run, under the others the data rotates with the name.
Rotation ==
    <<NoCommit, Runs(<<>>), Runs(<<Queued>>), Runs(<<Passed>>),
      Runs(<<Failed, Running>>), Runs(<<Running, Queued>>)>>
ProfileData(p, name) ==
    IF p = 1 THEN Runs(<<Passed>>)
    ELSE Rotation[((name + p) % Len(Rotation)) + 1]

\* What the two requests of get_build_status may answer for a repository:
\* its data, or a failure of either request.
RemoteResponses(profile, x) ==
    {CommitErr, RunsErr}
    \cup (IF profile = 0 THEN AnyData ELSE {ProfileData(profile, x.name)})

\* ------------------------------------------------------ update_build_statuses
NotFetched == "NotFetched"
FetchErr == "Err"

\* The stream taking the next item while a fetch is still pending.
AndThenUnordered(inflight) == TRUE

\* and_then runs one future at a time: the next item is taken only when the
\* pending get_build_status has completed.
AndThenReady(inflight) == inflight = {}

\* try_for_each_concurrent polls the stream only below its limit.
BelowLimit(fs) == Len(fs) < ConcurrencyLimit

\* A channel without bound: every send completes at once.
Unbounded(c, fs) == TRUE

\* A send completes at once when a permit is free and nobody waits for one.
HasCapacity(c, fs) == Len(c) < ChannelCapacity /\ fs = <<>>

\* A recv that gives up on an empty buffer, senders alive or not.
ChannelEmpty(c, p) == c = <<>>

\* A sender that outlives the producer task: recv never returns None.
SenderKept(c, p) == FALSE

\* rx.recv() returns None: the buffer is empty and every sender is dropped.
ChannelClosed(c, p) == c = <<>> /\ p \in {"ok", "err"}

FetchIdle ==
    /\ repos = <<>> /\ idx = 0 /\ fetching = {} /\ futures = <<>>
    /\ chan = <<>> /\ producer = "none" /\ vs = <<>> /\ collector = "none"
    /\ fetched = <<>> /\ dbAtFetch = <<>> /\ bss = <<>>

\* update_build_statuses up to the two tokio::spawn calls.
StartUpdateBuildStatuses ==
    /\ pc = "update_build_statuses" /\ producer = "none"
    /\ repos' = get_dashboard_repositories(db, github_username)
    /\ fetched' = [i \in 1..Len(repos') |-> NotFetched]
    /\ dbAtFetch' = db
    /\ idx' = 0 /\ fetching' = {} /\ futures' = <<>> /\ chan' = <<>>
    /\ vs' = <<>> /\ bss' = <<>>
    /\ producer' = "running" /\ collector' = "running"
    /\ UNCHANGED <<reduceVars, putVars, textVars, dbVars,
                   pageVars, cycleVars, ghChecks>>

\* The producer's stream takes the next repository and starts its fetch.
StartFetch ==
    /\ producer = "running"
    /\ idx < Len(repos)
    /\ AndThenReady(fetching) /\ BelowLimit(futures)
    /\ idx' = idx + 1
    /\ fetching' = fetching \cup {idx + 1}
    /\ UNCHANGED <<reduceVars, putVars, textVars, dbVars,
                   pageVars, cycleVars, ghChecks, repos, futures, chan,
                   producer, vs, collector, fetched, dbAtFetch, bss>>

\* A fetch completes. An error ends try_for_each_concurrent: the waiting
\* sends are dropped and the task returns Err into its dropped JoinHandle.
\* A status is sent at once, or waits for capacity; no status sends nothing.
CompleteFetch ==
    /\ producer = "running"
    /\ \E i \in fetching : \E resp \in RemoteResponses(ghChecks, repos[i]) :
         LET build_status == get_build_status(resp) IN
         IF ~build_status.ok
         THEN /\ fetched' = [fetched EXCEPT ![i] = FetchErr]
              /\ fetching' = {} /\ futures' = <<>>
              /\ producer' = "err"
              /\ chan' = chan
         ELSE /\ fetched' = [fetched EXCEPT ![i] = build_status.val]
              /\ fetching' = fetching \ {i}
              /\ producer' = producer
              /\ IF build_status.val = None
                 THEN chan' = chan /\ futures' = futures
                 ELSE IF HasCapacity(chan, futures)
                      THEN /\ chan' = Append(chan, [r |-> repos[i], s |-> build_status.val])
                           /\ futures' = futures
                      ELSE /\ chan' = chan
                           /\ futures' = Append(futures, [r |-> repos[i], s |-> build_status.val])
    /\ UNCHANGED <<reduceVars, putVars, textVars, dbVars,
                   pageVars, cycleVars, ghChecks, repos, idx, vs, collector,
                   dbAtFetch, bss>>

\* A waiting tx.send(..) gets the permit a recv released.
SendBlocked ==
    /\ producer = "running"
    /\ futures # <<>> /\ Len(chan) < ChannelCapacity
    /\ chan' = Append(chan, Head(futures))
    /\ futures' = Tail(futures)
    /\ UNCHANGED <<reduceVars, putVars, textVars, dbVars,
                   pageVars, cycleVars, ghChecks, repos, idx, fetching,
                   producer, vs, collector, fetched, dbAtFetch, bss>>

\* The stream is exhausted and no send is left: the task returns Ok and
\* drops tx and its clones.
ProducerFinish ==
    /\ producer = "running"
    /\ idx = Len(repos) /\ fetching = {} /\ futures = <<>>
    /\ producer' = "ok"
    /\ UNCHANGED <<reduceVars, putVars, textVars, dbVars,
                   pageVars, cycleVars, ghChecks, repos, idx, fetching,
                   futures, chan, vs, collector, fetched, dbAtFetch, bss>>

\* The collector: Some(x) => vs.push(x)
Recv ==
    /\ collector = "running" /\ chan # <<>>
    /\ vs' = Append(vs, Head(chan))
    /\ chan' = Tail(chan)
    /\ UNCHANGED <<reduceVars, putVars, textVars, dbVars,
                   pageVars, cycleVars, ghChecks, repos, idx, fetching,
                   futures, producer, collector, fetched, dbAtFetch, bss>>

\* The collector: None => break, and the task returns Ok(vs).
RecvNone ==
    /\ collector = "running" /\ ChannelClosed(chan, producer)
    /\ collector' = "done"
    /\ UNCHANGED <<reduceVars, putVars, textVars, dbVars,
                   pageVars, cycleVars, ghChecks, repos, idx, fetching,
                   futures, chan, producer, vs, fetched, dbAtFetch, bss>>

\* collector.await?? is Ok(vs): db.set_build_statuses(&bss[..]), then Ok(()).
SetBuildStatuses ==
    /\ pc = "update_build_statuses" /\ collector = "done"
    /\ bss' = vs
    /\ db' = set_build_statuses(db, vs)
    /\ pc' = "print_dashboard"
    /\ UNCHANGED <<reduceVars, putVars, textVars, dbVars,
                   pageVars, result, printed, cycle, dbAtStart, ghChecks,
                   repos, idx, fetching, futures, chan, producer, vs,
                   collector, fetched, dbAtFetch>>

\* Lines that leave out the repositories without a build status.
LinesWithStatus(rs) ==
    LET known == SelectSeq(rs, LAMBDA r : r.build_status # None)
    IN [i \in 1..Len(known) |-> <<known[i].name, to_string(known[i].build_status)>>]

\* The (name, build status) pairs print_dashboard hands to do_print_dashboard,
\* which prints one line for each: the status as a string, empty when absent.
Lines(rs) ==
    [i \in 1..Len(rs) |->
        <<rs[i].name,
          IF rs[i].build_status = None THEN "" ELSE to_string(rs[i].build_status)>>]

\* The command D: print_dashboard alone, on whatever the cache holds.
DisplayOnly ==
    /\ pc \in {"idle", "done"}
    /\ pc' = "print_dashboard" /\ result' = "None" /\ printed' = <<>>
    /\ dbAtStart' = db
    /\ stream' = "none" /\ ghPages' = <<>> /\ cursor' = Cursor("None", 0)
    /\ has_next' = FALSE /\ buf' = <<>> /\ spos' = "none" /\ out' = <<>>
    /\ requests' = <<>> /\ responses' = <<>>
    /\ repos' = <<>> /\ idx' = 0 /\ fetching' = {} /\ futures' = <<>>
    /\ chan' = <<>> /\ producer' = "none" /\ vs' = <<>> /\ collector' = "none"
    /\ fetched' = <<>> /\ dbAtFetch' = <<>> /\ bss' = <<>>
    /\ UNCHANGED <<reduceVars, putVars, textVars, dbVars, ghChecks, db, cycle>>

\* print_dashboard: one (name, build status) line per cached repository.
PrintDashboard ==
    /\ pc = "print_dashboard"
    /\ printed' = Lines(get_dashboard_repositories(db, github_username))
    /\ pc' = "done" /\ result' = "Ok"
    /\ UNCHANGED <<reduceVars, putVars, textVars, dbVars,
                   pageVars, db, cycle, dbAtStart, fetchVars>>

\* --------------------------------------------------- the pagination streams
PageIdle ==
    /\ stream = "none" /\ ghPages = <<>> /\ cursor = Cursor("None", 0)
    /\ has_next = FALSE /\ buf = <<>> /\ spos = "none" /\ out = <<>>
    /\ requests = <<>> /\ responses = <<>>

Last(xs) == xs[Len(xs)]

\* The consumer polls the stream while it holds no item: the stream ends, or
\* it makes the request of its cursor (unpage advances page_num first) and
\* awaits the answer.
Poll ==
    /\ spos \in {"start", "items"} /\ Drained(buf)
    /\ Len(requests) < MaxRequests
    /\ IF spos = "items" /\ Exhausted(stream, cursor, has_next)
       THEN spos' = "end" /\ UNCHANGED <<cursor, requests>>
       ELSE IF spos = "items" /\ stream = "unpage"
            THEN \E o \in AfterPage(stream, cursor, has_next) :
                    IF o.panic
                    THEN spos' = "panicked" /\ UNCHANGED <<cursor, requests>>
                    ELSE /\ cursor' = o.cursor
                         /\ requests' = Append(requests, Param(o.cursor))
                         /\ spos' = "awaiting"
            ELSE /\ requests' = Append(requests, Param(cursor))
                 /\ spos' = "awaiting"
                 /\ UNCHANGED cursor
    /\ UNCHANGED <<reduceVars, putVars, textVars, dbVars,
                   fetchVars, cycleVars, stream, ghPages, has_next,
                   buf, out, responses>>

\* The answer arrives. An error is yielded and ends the stream (req.await? /
\* .await? in the try_unfold closure). A page becomes the current batch; the
\* try_unfold closures compute the next cursor before they return it.
Respond ==
    /\ spos = "awaiting"
    /\ \E ok \in BOOLEAN :
         IF ~ok
         THEN /\ out' = Append(out, Err)
              /\ responses' = Append(responses, [ok |-> FALSE, page |-> 0, next |-> FALSE])
              /\ spos' = "end"
              /\ UNCHANGED <<cursor, has_next, buf>>
         ELSE LET r == Serve(ghPages, Last(requests)) IN
              /\ responses' = Append(responses, [ok |-> TRUE, page |-> r.page, next |-> r.next])
              /\ has_next' = r.next
              /\ out' = out
              /\ IF stream = "unpage"
                 THEN buf' = r.items /\ spos' = "items" /\ cursor' = cursor
                 ELSE \E o \in AfterPage(stream, cursor, r.next) :
                        IF o.panic
                        THEN spos' = "panicked" /\ buf' = buf /\ cursor' = cursor
                        ELSE cursor' = o.cursor /\ buf' = r.items /\ spos' = "items"
    /\ UNCHANGED <<reduceVars, putVars, textVars, dbVars,
                   fetchVars, cycleVars, stream, ghPages, requests>>

\* The consumer polls the stream while it holds items: the next one is yielded.
Yield ==
    /\ spos = "items" /\ buf # <<>>
    /\ out' = Append(out, Ok(Head(buf)))
    /\ buf' = Tail(buf)
    /\ UNCHANGED <<reduceVars, putVars, textVars, dbVars,
                   fetchVars, cycleVars, stream, ghPages, cursor,
                   has_next, spos, requests, responses>>

\* ------------------------------------------------------------ update_dashboard
\* The remote listings of a refresh cycle: repositories of distinct names, each
\* plain, a fork, archived or without owner, on one page or split over two.
GhKinds(n) ==
    {GhRepo(n, github_username, FALSE, FALSE), GhRepo(n, github_username, TRUE, FALSE),
     GhRepo(n, github_username, FALSE, TRUE), GhRepo(n, None, FALSE, FALSE)}

RECURSIVE ItemLists(_)
ItemLists(n) ==
    IF n = 0 THEN {<<>>}
    ELSE ItemLists(n - 1)
         \cup {Append(l, r) : l \in ItemLists(n - 1), r \in GhKinds(n)}

CycleListings ==
    {<<l>> : l \in ItemLists(MaxRepos)}
    \cup UNION {{<<SubSeq(l, 1, k), SubSeq(l, k + 1, Len(l))>> : k \in 0..Len(l)} :
                    l \in ItemLists(MaxRepos)}

\* update_dashboard is entered: update_repositories creates the stream of
\* list_owned_repositories and try_collect starts to poll it.
UpdateDashboard ==
    /\ pc \in {"idle", "done"} /\ cycle < MaxCycles
    /\ cycle' = cycle + 1
    /\ pc' = "update_repositories" /\ result' = "None" /\ printed' = <<>>
    /\ dbAtStart' = db /\ db' = db
    /\ stream' = "list_owned_repositories"
    /\ ghPages' \in CycleListings
    /\ cursor' = FirstCursor("list_owned_repositories")
    /\ spos' = "start" /\ buf' = <<>> /\ out' = <<>> /\ has_next' = FALSE
    /\ requests' = <<>> /\ responses' = <<>>
    /\ repos' = <<>> /\ idx' = 0 /\ fetching' = {} /\ futures' = <<>>
    /\ chan' = <<>> /\ producer' = "none" /\ vs' = <<>> /\ collector' = "none"
    /\ fetched' = <<>> /\ dbAtFetch' = <<>> /\ bss' = <<>>
    /\ UNCHANGED <<reduceVars, putVars, textVars, dbVars, ghChecks>>

\* impl TryFrom<GhRepository> for Repository
try_from(x) ==
    [ok |-> x.owner # None,
     val |-> Repo(x.owner, x.name, x.fork, x.archived, None)]

\* update_repositories once try_collect is over: an error of the stream or of
\* a conversion is returned, else the listing is put into the cache.
UpdateRepositories ==
    /\ pc = "update_repositories" /\ spos = "end"
    /\ LET gh_repos == [i \in 1..Len(out) |-> try_from(out[i].item)] IN
       IF (\E i \in 1..Len(out) : ~out[i].ok)
          \/ (\E i \in 1..Len(gh_repos) : ~gh_repos[i].ok)
       THEN pc' = "done" /\ result' = "Err" /\ db' = db
       ELSE /\ db' = put_repositories(db, [i \in 1..Len(gh_repos) |-> gh_repos[i].val])
            /\ pc' = "update_build_statuses" /\ result' = result
    /\ UNCHANGED <<reduceVars, putVars, textVars, dbVars,
                   pageVars, fetchVars, printed, cycle, dbAtStart>>

\* A latest commit was found and its check runs were listed.
Answered == [commit |-> "Some", check_runs |-> "Ok"]

ReduceIdle ==
    /\ runs = <<>> /\ status = "Unset" /\ answer = Answered /\ lastPut = <<>>

\* No database call is running, and Database::new has migrated the file.
NoCall == [op |-> "none", batch |-> <<>>, owner |-> ""]
NoTx == [open |-> FALSE, table |-> <<>>]
NoRet == [state |-> "none", val |-> <<>>]
DbIdle ==
    /\ tables = {"repositories"} /\ call = NoCall /\ tx = NoTx /\ at = 0
    /\ ret = NoRet

\* No text has been handed to the parser or to ellipsize.
NotParsed == [state |-> "none", owner |-> <<>>, name |-> <<>>, was |-> <<>>]
NotEllipsized == [state |-> "none", val |-> <<>>]
TextIdle ==
    /\ text = <<>> /\ threshold = MaxThreshold
    /\ id = NotParsed /\ ellipsized = NotEllipsized

Init ==
    /\ TextIdle
    /\ ReduceIdle /\ FetchIdle /\ PageIdle /\ DbIdle
    /\ ghChecks = 0
    /\ db = <<>> /\ pc = "idle" /\ result = "None" /\ printed = <<>>
    /\ cycle = 0 /\ dbAtStart = <<>>

\* No listing of a cycle reaches ChannelCapacity repositories, so no send of a
\* cycle ever waits: SendBlocked is exercised by SpecFetch.
Next ==
    \/ UpdateDashboard \/ DisplayOnly
    \/ Poll \/ Respond \/ Yield
    \/ UpdateRepositories
    \/ StartUpdateBuildStatuses
    \/ StartFetch \/ CompleteFetch \/ ProducerFinish
    \/ Recv \/ RecvNone
    \/ SetBuildStatuses
    \/ PrintDashboard

Spec == Init /\ [][Next]_vars

\* ------------------------------------------------ the status fetcher alone
\* The cache as update_repositories leaves it for n listed repositories.
Listed(n) == [i \in 1..n |-> RowOf(Repo(github_username, i, FALSE, FALSE, None))]

InitFetch ==
    /\ TextIdle
    /\ ReduceIdle /\ FetchIdle /\ PageIdle /\ DbIdle
    /\ ghChecks \in 1..NumProfiles
    /\ \E n \in 0..MaxFetchRepos : db = Listed(n)
    /\ pc = "update_build_statuses" /\ result = "None" /\ printed = <<>>
    /\ cycle = 1 /\ dbAtStart = db

NextFetch ==
    \/ StartUpdateBuildStatuses
    \/ StartFetch \/ CompleteFetch \/ SendBlocked \/ ProducerFinish
    \/ Recv \/ RecvNone
    \/ SetBuildStatuses
    \/ PrintDashboard

SpecFetch == InitFetch /\ [][NextFetch]_vars

\* The two tasks update_build_statuses spawns. The runtime polls a spawned
\* task whenever it is woken and every fetch terminates, so each task takes
\* its next step when that step stays possible; update_build_statuses itself
\* runs up to the two spawns without waiting for anything.
ProducerTask == StartFetch \/ CompleteFetch \/ SendBlocked \/ ProducerFinish
CollectorTask == Recv \/ RecvNone

SpecFetchFair ==
    /\ SpecFetch
    /\ WF_vars(StartUpdateBuildStatuses)
    /\ WF_vars(ProducerTask) /\ WF_vars(CollectorTask)

\* --------------------------------------------- the pagination streams alone
Item(i) == GhRepo(i, github_username, FALSE, FALSE)

\* The sizes of the pages of a listing: all 1, or 1 2 0 1 2 0 .., or
\* 0 1 2 0 1 2 ..
PageLen(kind, p) ==
    CASE kind = 0 -> 1
      [] kind = 1 -> p % 3
      [] kind = 2 -> (p - 1) % 3

\* How many items the first m pages of a listing hold.
ItemsBefore(kind, m) ==
    CASE kind = 0 -> m
      [] kind = 1 -> 3 * (m \div 3) + (IF m % 3 = 2 THEN 3 ELSE m % 3)
      [] kind = 2 -> 3 * (m \div 3) + (IF m % 3 = 2 THEN 1 ELSE 0)

\* A listing of P pages: the items are numbered in listing order.
Pages(kind, P) ==
    [p \in 1..P |->
        [j \in 1..PageLen(kind, p) |-> Item(ItemsBefore(kind, p - 1) + j)]]

\* Every small listing, and the two around the last page number a u8 holds.
PageListings ==
    {Pages(kind, P) : kind \in 0..2, P \in 1..MaxPages}
    \cup {Pages(0, P) : P \in {U8Max, U8Max + 1}}

InitPage ==
    /\ TextIdle
    /\ ReduceIdle /\ FetchIdle /\ DbIdle
    /\ ghChecks = 0
    /\ db = <<>> /\ pc = "idle" /\ result = "None" /\ printed = <<>>
    /\ cycle = 0 /\ dbAtStart = <<>>
    /\ stream \in Streams
    /\ ghPages \in PageListings
    /\ cursor = FirstCursor(stream)
    /\ has_next = FALSE /\ buf = <<>> /\ spos = "start" /\ out = <<>>
    /\ requests = <<>> /\ responses = <<>>

NextPage == Poll \/ Respond \/ Yield

SpecPage == InitPage /\ [][NextPage]_vars

\* ---------------------------------------------------- the status reduction
RunLists == UNION {[1..n -> GhCheckRun] : n \in 0..MaxRuns}

InitReduce ==
    /\ TextIdle
    /\ FetchIdle /\ PageIdle /\ DbIdle
    /\ ghChecks = 0
    /\ db = <<>> /\ pc = "idle" /\ result = "None" /\ printed = <<>>
    /\ cycle = 0 /\ dbAtStart = <<>>
    /\ \/ answer = Answered /\ runs \in RunLists
       \/ /\ answer \in {[commit |-> "None", check_runs |-> "Ok"],
                         [commit |-> "Err", check_runs |-> "Ok"],
                         [commit |-> "Some", check_runs |-> "Err"]}
          /\ runs = <<>>
    /\ status = "Unset" /\ lastPut = <<>>

\* What the remote answered: the commit, the check runs request, the runs.
Response ==
    [commit |-> answer.commit, check_runs |-> answer.check_runs, runs |-> runs]

\* get_build_status on a repository for which the remote answers so: the
\* status it returns, or the error.
GetBuildStatus ==
    /\ status = "Unset"
    /\ status' = LET r == get_build_status(Response) IN
                 IF r.ok THEN r.val ELSE FetchErr
    /\ UNCHANGED <<runs, answer, putVars, textVars, dbVars, pageVars, fetchVars, cycleVars>>

NextReduce == GetBuildStatus

SpecReduce == InitReduce /\ [][NextReduce]_vars

\* ------------------------------------------------------ put_repositories alone
PutKeys == {<<"me", 1>>, <<"me", 2>>, <<"org", 1>>}

\* The records a batch draws from: per key a plain repository without status
\* and one with a status, a fork or archived or both.
PutRecords ==
    {Repo(k[1], k[2], FALSE, FALSE, None) : k \in PutKeys}
    \cup {Repo("me", 1, TRUE, FALSE, "Success"),
          Repo("me", 2, FALSE, TRUE, "Failure"),
          Repo("org", 1, TRUE, TRUE, "InProgress")}

Batches == UNION {[1..n -> PutRecords] : n \in 0..MaxBatch}

\* The records of a batch for one key, in batch order.
ForKey(batch, k) == SelectSeq(batch, LAMBDA r : r.owner = k[1] /\ r.name = k[2])

\* The last two elements of a sequence.
LastTwo(xs) == IF Len(xs) <= 2 THEN xs ELSE SubSeq(xs, Len(xs) - 1, Len(xs))

InitPut ==
    /\ TextIdle
    /\ FetchIdle /\ PageIdle /\ DbIdle
    /\ runs = <<>> /\ status = "Unset" /\ answer = Answered
    /\ ghChecks = 0
    /\ db = <<>> /\ pc = "idle" /\ result = "None" /\ printed = <<>>
    /\ cycle = 0 /\ dbAtStart = <<>>
    /\ lastPut = [k \in PutKeys |-> <<>>]

\* Database::put_repositories(&batch)
PutRepositories ==
    /\ \E batch \in Batches :
         /\ db' = put_repositories(db, batch)
         /\ lastPut' = [k \in PutKeys |-> LastTwo(lastPut[k] \o ForKey(batch, k))]
    /\ UNCHANGED <<reduceVars, dbVars, textVars, pageVars, fetchVars, pc, result,
                   printed, cycle, dbAtStart>>

NextPut == PutRepositories

SpecPut == InitPut /\ [][NextPut]_vars

\* ------------------------------------------------------- the database calls
\* A migration whose CREATE TABLE has no IF NOT EXISTS: it fails on a file
\* that holds the table already.
migrate_create(tabs, table) ==
    [ok |-> "repositories" \notin tabs,
     tables |-> tabs \cup {"repositories"},
     table |-> table]

\* migrate: execute_batch(MIGRATIONS), a single CREATE TABLE IF NOT EXISTS
\* repositories. It creates the table when the file lacks it and is a no-op
\* otherwise; the rows of an existing table are not touched.
migrate(tabs, table) ==
    [ok |-> TRUE, tables |-> tabs \cup {"repositories"}, table |-> table]

\* The (id, status) pairs a set_build_statuses call draws from.
SetPairs ==
    {[r |-> Repo("me", 1, FALSE, FALSE, None), s |-> "InProgress"],
     [r |-> Repo("me", 2, FALSE, FALSE, None), s |-> "Success"],
     [r |-> Repo("org", 1, FALSE, FALSE, None), s |-> "Failure"]}

PairLists == UNION {[1..n -> SetPairs] : n \in 0..MaxBatch}

\* The records a put_repositories call draws from here: two for one key, a
\* second name of the same owner, the same name under another owner.
DbRecords ==
    {Repo("me", 1, FALSE, FALSE, None), Repo("me", 1, TRUE, FALSE, "Success"),
     Repo("me", 2, FALSE, TRUE, "Failure"), Repo("org", 1, FALSE, FALSE, None)}

DbBatches == UNION {[1..n -> DbRecords] : n \in 0..MaxBatch}

\* A transaction dropped without commit is left to its drop behaviour.
DropCommits(committed, working) == working

\* rusqlite's Transaction rolls back when it is dropped: the `?` of a failed
\* statement leaves the table as committed before.
DropTx(committed, working) == committed

\* The statement a call executes for one element of its batch.
Statement(c, table, i) ==
    IF c.op = "put" THEN Insert(table, c.batch[i])
    ELSE Update(table, c.batch[i].r, c.batch[i].s)

InitDb ==
    /\ TextIdle
    /\ ReduceIdle /\ FetchIdle /\ PageIdle
    /\ ghChecks = 0
    /\ db = <<>> /\ pc = "idle" /\ result = "None" /\ printed = <<>>
    /\ cycle = 0 /\ dbAtStart = <<>>
    /\ tables = {} /\ call = NoCall /\ tx = NoTx /\ at = 0 /\ ret = NoRet

\* migrate(&db): execute_batch(MIGRATIONS)
Migrate ==
    /\ ~tx.open
    /\ LET m == migrate(tables, db) IN
         /\ tables' = m.tables
         /\ db' = m.table
         /\ ret' = [state |-> IF m.ok THEN "Ok" ELSE "Err", val |-> <<>>]
    /\ call' = [op |-> "migrate", batch |-> <<>>, owner |-> ""]
    /\ dbAtStart' = db
    /\ UNCHANGED <<reduceVars, putVars, textVars, pageVars, fetchVars, pc, result,
                   printed, cycle, tx, at>>

\* put_repositories is entered: db.0.transaction()
BeginPut ==
    /\ ~tx.open
    /\ \E batch \in DbBatches :
         call' = [op |-> "put", batch |-> batch, owner |-> ""]
    /\ tx' = [open |-> TRUE, table |-> db] /\ at' = 1
    /\ ret' = NoRet /\ dbAtStart' = db
    /\ UNCHANGED <<reduceVars, putVars, textVars, pageVars, fetchVars, db, pc, result,
                   printed, cycle, tables>>

\* set_build_statuses is entered: transaction(), then prepare_cached, which
\* fails when the table is missing and may fail otherwise.
BeginSet ==
    /\ ~tx.open
    /\ \E pairs \in PairLists, ok \in BOOLEAN :
         /\ ok => "repositories" \in tables
         /\ call' = [op |-> "set", batch |-> pairs, owner |-> ""]
         /\ IF ok
            THEN tx' = [open |-> TRUE, table |-> db] /\ at' = 1 /\ ret' = NoRet
            ELSE tx' = NoTx /\ at' = 0 /\ ret' = [state |-> "Err", val |-> <<>>]
    /\ dbAtStart' = db
    /\ UNCHANGED <<reduceVars, putVars, textVars, pageVars, fetchVars, db, pc, result,
                   printed, cycle, tables>>

\* The statement of the next element runs inside the transaction. It fails
\* when the table is missing and may fail otherwise; the `?` then returns the
\* error and drops the transaction.
Execute ==
    /\ tx.open /\ at <= Len(call.batch)
    /\ \E ok \in BOOLEAN :
         /\ ok => "repositories" \in tables
         /\ IF ok
            THEN /\ tx' = [tx EXCEPT !.table = Statement(call, tx.table, at)]
                 /\ at' = at + 1
                 /\ UNCHANGED <<db, ret>>
            ELSE /\ db' = DropTx(db, tx.table)
                 /\ tx' = NoTx /\ at' = at
                 /\ ret' = [state |-> "Err", val |-> <<>>]
    /\ UNCHANGED <<reduceVars, putVars, textVars, pageVars, fetchVars, pc, result,
                   printed, cycle, dbAtStart, tables, call>>

\* tx.commit()?: the working table becomes the table, or the commit fails.
Commit ==
    /\ tx.open /\ at > Len(call.batch)
    /\ \E ok \in BOOLEAN :
         IF ok
         THEN db' = tx.table /\ ret' = [state |-> "Ok", val |-> <<>>]
         ELSE db' = DropTx(db, tx.table) /\ ret' = [state |-> "Err", val |-> <<>>]
    /\ tx' = NoTx /\ at' = at
    /\ UNCHANGED <<reduceVars, putVars, textVars, pageVars, fetchVars, pc, result,
                   printed, cycle, dbAtStart, tables, call>>

\* Database::get_dashboard_repositories(owner)
GetDashboardRepositories ==
    /\ ~tx.open
    /\ \E owner \in {k[1] : k \in PutKeys} :
         /\ call' = [op |-> "get", batch |-> <<>>, owner |-> owner]
         /\ ret' = IF "repositories" \in tables
                   THEN [state |-> "Ok", val |-> get_dashboard_repositories(db, owner)]
                   ELSE [state |-> "Err", val |-> <<>>]
    /\ dbAtStart' = db
    /\ UNCHANGED <<reduceVars, putVars, textVars, pageVars, fetchVars, db, pc, result,
                   printed, cycle, tables, tx, at>>

NextDb ==
    \/ Migrate
    \/ BeginPut \/ BeginSet \/ Execute \/ Commit
    \/ GetDashboardRepositories

SpecDb == InitDb /\ [][NextDb]_vars

\* ------------------------------------------------------- the text functions
\* The characters texts are made of: a letter, a letter of two UTF-8 bytes,
\* the separator, the dot, and two white space characters.
Char == {"a", "U+00E9", "/", ".", " ", "\n"}

\* char::len_utf8
len_utf8(c) == IF c = "U+00E9" THEN 2 ELSE 1

\* str::len: the length in bytes.
str_len(s) == Len(s) + Cardinality({i \in 1..Len(s) : len_utf8(s[i]) = 2})

\* str::rfind(c): the 0-based position of the last c.
rfind(s, c) ==
    LET hits == {i \in 1..Len(s) : s[i] = c} IN
    IF hits = {} THEN [some |-> FALSE, x |-> 0]
    ELSE [some |-> TRUE, x |-> (CHOOSE i \in hits : \A j \in hits : j <= i) - 1]

\* str::find(c): the 0-based position of the first c, or None.
find(s, c) ==
    LET hits == {i \in 1..Len(s) : s[i] = c} IN
    IF hits = {} THEN [some |-> FALSE, x |-> 0]
    ELSE [some |-> TRUE, x |-> (CHOOSE i \in hits : \A j \in hits : i <= j) - 1]

\* bail!("Expecting in `:owner/:name` format, but was `{}`.", s): the message
\* without its quotation marks, and the text it quotes.
ExpectingFormat(s) ==
    [state |-> "Expecting in :owner/:name format", owner |-> <<>>,
     name |-> <<>>, was |-> s]

\* <RepositoryId as FromStr>::from_str and <FullRepositoryId as
\* FromStr>::from_str, which have the same body.
RepositoryId_from_str(s) ==
    LET sep == find(s, "/") IN
    IF sep.some
    THEN LET name == SubSeq(s, sep.x + 2, Len(s)) IN
         IF name = <<>> THEN ExpectingFormat(s)
         ELSE [state |-> "Ok", owner |-> SubSeq(s, 1, sep.x), name |-> name,
               was |-> <<>>]
    ELSE ExpectingFormat(s)

\* char::is_whitespace
is_whitespace(c) == c \in {" ", "\n"}

\* str::trim: without the leading and the trailing white space.
trim(s) ==
    LET solid == {i \in 1..Len(s) : ~is_whitespace(s[i])} IN
    IF solid = {} THEN <<>>
    ELSE SubSeq(s, CHOOSE i \in solid : \A j \in solid : i <= j,
                   CHOOSE i \in solid : \A j \in solid : j <= i)

\* Iterator::take(n)
take(s, n) == SubSeq(s, 1, IF n < Len(s) THEN n ELSE Len(s))

\* ellipsize(text, threshold), for the thresholds above 2 its debug_assert
\* admits.
ellipsize(t, th) ==
    IF str_len(t) <= th THEN t
    ELSE LET mapped == [i \in 1..Len(t) |-> IF t[i] = "\n" THEN " " ELSE t[i]]
         IN trim(take(mapped, th - 2)) \o <<".", ".">>

\* str::ends_with
ends_with(s, suffix) ==
    /\ Len(suffix) <= Len(s)
    /\ SubSeq(s, Len(s) - Len(suffix) + 1, Len(s)) = suffix

Texts == UNION {[1..n -> Char] : n \in 0..MaxText}

InitText ==
    /\ ReduceIdle /\ FetchIdle /\ PageIdle /\ DbIdle
    /\ ghChecks = 0
    /\ db = <<>> /\ pc = "idle" /\ result = "None" /\ printed = <<>>
    /\ cycle = 0 /\ dbAtStart = <<>>
    /\ text \in Texts /\ threshold \in 3..MaxThreshold
    /\ id = NotParsed /\ ellipsized = NotEllipsized

\* text.parse::<RepositoryId>()
ParseRepositoryId ==
    /\ id = NotParsed
    /\ id' = RepositoryId_from_str(text)
    /\ UNCHANGED <<reduceVars, putVars, dbVars, pageVars, fetchVars, cycleVars,
                   text, threshold, ellipsized>>

\* ellipsize(text, threshold)
Ellipsize ==
    /\ ellipsized = NotEllipsized
    /\ ellipsized' = [state |-> "done", val |-> ellipsize(text, threshold)]
    /\ UNCHANGED <<reduceVars, putVars, dbVars, pageVars, fetchVars, cycleVars,
                   text, threshold, id>>

NextText == ParseRepositoryId \/ Ellipsize

SpecText == InitText /\ [][NextText]_vars

\* ================================================================== claims
FetchFailed == \E i \in 1..Len(fetched) : fetched[i] = FetchErr
SetCalled == pc \in {"print_dashboard", "done"} /\ collector = "done"

\* C1: when a get_build_status fails during update_build_statuses, the call
\* returns an error, so update_dashboard ends with an error and not with Ok.
C1_FetchErrorReturned == (pc = "done" /\ FetchFailed) => result = "Err"

\* C2: when a status fetch fails, set_build_statuses is not applied: the
\* cache is what it was when status fetching started (no partial commit).
C2_NoPartialCommit == FetchFailed => db = dbAtFetch

\* C3: the reduction follows Success < InProgress < Failure: the result is
\* Failure whenever some run maps to Failure, and InProgress only when some
\* run maps to InProgress and none maps to Failure.
C3_FailureDominates ==
    status # "Unset" =>
        LET mapped == {MapRun(runs[i]) : i \in 1..Len(runs)} IN
        /\ "Failure" \in mapped => status = "Failure"
        /\ status = "InProgress" => ("InProgress" \in mapped /\ "Failure" \notin mapped)

\* The build_status column of a repository's row (NULL without a row).
StatusIn(table, owner, name) ==
    IF \E i \in 1..Len(table) : SameKey(table[i], owner, name)
    THEN table[CHOOSE i \in 1..Len(table) : SameKey(table[i], owner, name)].build_status
    ELSE NULL

\* C4: after a successful refresh cycle, a repository whose fetch returned no
\* status has the cached build_status it had before the cycle started.
C4_AbsentStatusUntouched ==
    (pc = "done" /\ result = "Ok") =>
        \A i \in 1..Len(repos) :
            fetched[i] = None =>
                StatusIn(db, repos[i].owner, repos[i].name)
                    = StatusIn(dbAtStart, repos[i].owner, repos[i].name)

\* C5: at most 2 get_build_status fetches are in flight at any time, for any
\* number of repositories and any interleaving of completions.
C5_AtMostTwoInFlight == Cardinality(fetching) <= 2

\* A fetch is in flight while another repository's send waits on the full channel.
C5_Witness ==
    Cardinality(fetching) = 1 /\ Len(futures) = 1 /\ Len(chan) = ChannelCapacity

\* C6: in an error-free run set_build_statuses is called only once every fetch
\* has finished and the channel is drained and closed, and it receives exactly
\* one pair per repository whose fetch yielded a status, with that status, and
\* no other pair.
C6_CollectsAll ==
    (SetCalled /\ ~FetchFailed) =>
        /\ idx = Len(repos) /\ fetching = {}
        /\ \A i \in 1..Len(repos) : fetched[i] # NotFetched
        /\ chan = <<>> /\ futures = <<>> /\ producer = "ok"
        /\ \A i \in 1..Len(repos) :
             Cardinality({k \in 1..Len(bss) : bss[k].r = repos[i]})
                = (IF fetched[i] \in BuildStatus THEN 1 ELSE 0)
        /\ \A k \in 1..Len(bss) :
             \E i \in 1..Len(repos) : bss[k] = [r |-> repos[i], s |-> fetched[i]]

\* An error-free run that collected more pairs than the channel holds.
C6_Witness ==
    /\ SetCalled /\ ~FetchFailed
    /\ Len(bss) > ChannelCapacity

IsPrefix(a, b) == Len(a) <= Len(b) /\ \A i \in 1..Len(a) : a[i] = b[i]

\* The items of the remote pages 1..m, which the listing numbers in order:
\* each once, in page order and in the order within each page.
ItemsUpTo(m) ==
    LET names == UNION {{ghPages[p][j].name : j \in 1..Len(ghPages[p])} :
                            p \in 1..Len(ghPages) \cap 1..m}
    IN [i \in 1..Cardinality(names) |-> Ok(Item(i))]

AllAnswered == \A i \in 1..Len(responses) : responses[i].ok

\* C7: over a remote collection on any number of pages, each but the last
\* reporting a next page, the stream of unpage yields exactly the items, each
\* once, in page order and in the order within each page, and then ends.
C7_UnpageYieldsAll ==
    (stream = "unpage" /\ AllAnswered) =>
        /\ IsPrefix(out, ItemsUpTo(Len(ghPages)))
        /\ spos \in {"end", "panicked"} => out = ItemsUpTo(Len(ghPages))

\* C8: once a page reports no next page the stream makes no further request
\* and its cursor is at the end to stay; when the first page reports none,
\* one request is made and exactly that page's items are yielded.
C8_StopsAtLastPage ==
    \A i \in 1..Len(responses) :
        (responses[i].ok /\ ~responses[i].next) =>
            /\ i = Len(responses) /\ Len(requests) = i
            /\ spos \in {"items", "end"}
            /\ stream # "unpage" => cursor.tag = "End"
            /\ i = 1 =>
                /\ IsPrefix(out, ItemsUpTo(1))
                /\ spos = "end" => out = ItemsUpTo(1)

\* The stream has ended after the one request of a first page without next.
C8_Witness ==
    /\ spos = "end" /\ Len(requests) = 1
    /\ Len(responses) = 1 /\ responses[1].ok /\ ~responses[1].next
    /\ Len(out) = Len(ghPages[1])

\* The highest remote page among the first n answers.
RECURSIVE MaxPage(_)
MaxPage(n) ==
    IF n = 0 THEN 0
    ELSE IF responses[n].page > MaxPage(n - 1) THEN responses[n].page
         ELSE MaxPage(n - 1)

\* C9: when a page fetch fails the stream yields the error as its last item:
\* the items of the earlier pages have been yielded exactly once, nothing is
\* yielded after the error and no further request is made.
C9_ErrorIsLast ==
    \A i \in 1..Len(responses) :
        ~responses[i].ok =>
            /\ i = Len(responses) /\ Len(requests) = i /\ spos = "end"
            /\ out = ItemsUpTo(MaxPage(i - 1)) \o <<Err>>

\* C10: after any sequence of put_repositories calls the cache holds at most
\* one row per (owner, name), and its a_fork, archived and build_status are
\* those of the record put last for the key (a stored build_status is
\* replaced by the incoming one, NULL when the record carries none).
C10_LastPutWins ==
    \A k \in DOMAIN lastPut :
        LET rows == {i \in 1..Len(db) : SameKey(db[i], k[1], k[2])} IN
        /\ Cardinality(rows) <= 1
        /\ lastPut[k] = <<>> => rows = {}
        /\ lastPut[k] # <<>> =>
             \E i \in rows :
                /\ db[i].a_fork = Last(lastPut[k]).a_fork
                /\ db[i].archived = Last(lastPut[k]).archived
                /\ FromSql(db[i].build_status) = Last(lastPut[k]).build_status

\* A key put with a build status and then again without one: its row holds NULL.
C10_Witness ==
    \E k \in DOMAIN lastPut :
        /\ Len(lastPut[k]) = 2
        /\ lastPut[k][1].build_status = "Success"
        /\ lastPut[k][2].build_status = None
        /\ StatusIn(db, k[1], k[2]) = NULL

\* A database call of this kind has returned Ok.
Returned(op) == call.op = op /\ ~tx.open /\ ret.state = "Ok"

\* Whether some pair of the batch names the row's key.
Named(row, pairs) ==
    \E j \in 1..Len(pairs) : SameKey(row, pairs[j].r.owner, pairs[j].r.name)

\* C11: set_build_statuses changes nothing but the build_status of the rows
\* whose (owner, name) a pair names: the rows and their keys, a_fork and
\* archived are as before, a row no pair names is as before, and a pair
\* without a row inserts nothing.
C11_SetTouchesOnlyStatus ==
    Returned("set") =>
        /\ Len(db) = Len(dbAtStart)
        /\ \A i \in 1..Len(db) :
             /\ db[i].owner = dbAtStart[i].owner /\ db[i].name = dbAtStart[i].name
             /\ db[i].a_fork = dbAtStart[i].a_fork
             /\ db[i].archived = dbAtStart[i].archived
             /\ ~Named(dbAtStart[i], call.batch) => db[i] = dbAtStart[i]

\* A call that changed the status of a fork's row, left another row alone and
\* held a pair without a row.
C11_Witness ==
    /\ Returned("set")
    /\ \E i \in 1..Len(db) :
         db[i].a_fork /\ db[i].build_status # dbAtStart[i].build_status
    /\ \E i \in 1..Len(db) : ~Named(db[i], call.batch)
    /\ \E j \in 1..Len(call.batch) :
         \A i \in 1..Len(db) :
            ~SameKey(db[i], call.batch[j].r.owner, call.batch[j].r.name)

\* The record a stored row stands for.
RecordOf(row) ==
    Repo(row.owner, row.name, row.a_fork, row.archived, FromSql(row.build_status))

\* How often a record occurs among the records returned.
Times(rec, val) == Cardinality({j \in 1..Len(val) : val[j] = rec})

\* C12: get_dashboard_repositories(owner) returns every record stored for
\* the owner, each exactly once with the stored a_fork, archived and
\* build_status, and no record of another owner.
C12_ReturnsAllOfOwner ==
    Returned("get") =>
        /\ \A i \in 1..Len(db) :
             db[i].owner = call.owner => Times(RecordOf(db[i]), ret.val) = 1
        /\ \A j \in 1..Len(ret.val) : ret.val[j].owner = call.owner

\* The rows of an owner the dashboard query selects.
Selected(owner) ==
    {i \in 1..Len(db) : db[i].owner = owner /\ ~db[i].a_fork /\ ~db[i].archived}

\* C12 as amended: get_dashboard_repositories(owner) returns the records
\* stored for the owner that are neither forks nor archived, each exactly
\* once with the stored build_status, and nothing else: no fork, no archived
\* record, no record of another owner.
C12_ReturnsDashboardRows ==
    Returned("get") =>
        /\ \A i \in Selected(call.owner) : Times(RecordOf(db[i]), ret.val) = 1
        /\ Len(ret.val) = Cardinality(Selected(call.owner))
        /\ \A j \in 1..Len(ret.val) :
             /\ ret.val[j].owner = call.owner
             /\ ~ret.val[j].a_fork /\ ~ret.val[j].archived

\* A read that returned a record with a status while the cache also held an
\* archived record of the owner and a record of another owner.
C12_Witness ==
    /\ Returned("get") /\ call.owner = "me"
    /\ Len(ret.val) = 1 /\ ret.val[1].build_status = "InProgress"
    /\ \E i \in 1..Len(db) : db[i].owner = "me" /\ db[i].archived
    /\ \E i \in 1..Len(db) : db[i].owner # "me"

\* The table a call leaves when its whole batch is applied.
Applied(c, table) ==
    IF c.op = "put" THEN put_repositories(table, c.batch)
    ELSE set_build_statuses(table, c.batch)

\* C13: put_repositories and set_build_statuses are all-or-nothing: while a
\* call runs the stored table is the one before the call, a call that returns
\* an error leaves that table, and a call that returns Ok leaves the table
\* with the whole batch applied.
C13_AllOrNothing ==
    call.op \in {"put", "set"} =>
        /\ tx.open => db = dbAtStart
        /\ (~tx.open /\ ret.state = "Err") => db = dbAtStart
        /\ (~tx.open /\ ret.state = "Ok") => db = Applied(call, dbAtStart)

\* A call whose second statement failed after its first had changed the
\* working table.
C13_Witness ==
    /\ call.op \in {"put", "set"} /\ ~tx.open /\ ret.state = "Err"
    /\ at = 2 /\ Len(call.batch) = 2
    /\ Statement(call, dbAtStart, 1) # dbAtStart

\* The (owner, name) keys a table holds.
KeysOf(table) == {<<table[i].owner, table[i].name>> : i \in 1..Len(table)}

\* C14: the set of (owner, name) keys stored in the cache never shrinks, over
\* any sequence of refresh cycles and database calls: a repository missing
\* from a later remote listing stays in the cache.
C14_KeysNeverShrink == [][KeysOf(db) \subseteq KeysOf(db')]_vars

\* A refresh cycle has ended well and the cache holds a repository that the
\* cycle's listing did not name.
C14_Witness ==
    /\ pc = "done" /\ result = "Ok" /\ cycle > 1
    /\ \E i \in 1..Len(db) :
         \A j \in 1..Len(out) : out[j].item.name # db[i].name

\* C15: in a refresh cycle that finds a non-empty repository list of the owner
\* in the cache, the remote listing is not fetched: no page of it is requested
\* (and so nothing is listed to put into the cache).
C15_CacheFirst ==
    (cycle > 0 /\ get_dashboard_repositories(dbAtStart, github_username) # <<>>) =>
        requests = <<>>

\* C16: a refresh cycle writes no record with a_fork or archived set to the
\* cache: forks and archived repositories are filtered out of the listing.
C16_NoForkStored ==
    \A i \in 1..Len(db) : ~db[i].a_fork /\ ~db[i].archived

\* C17: print_dashboard makes no remote call and writes nothing to the cache:
\* across it the table is the same, no page and no build status is requested,
\* and it prints exactly one line per record that
\* get_dashboard_repositories returns, in their order.
C17_PrintReadsOnly ==
    [][(pc = "print_dashboard" /\ pc' = "done") =>
          /\ db' = db /\ tables' = tables
          /\ requests' = requests /\ responses' = responses
          /\ fetching' = fetching /\ fetched' = fetched /\ idx' = idx
          /\ LET rs == get_dashboard_repositories(db, github_username) IN
             /\ Len(printed') = Len(rs)
             /\ \A i \in 1..Len(rs) : printed'[i][1] = rs[i].name]_vars

\* The display-only command has printed two cached repositories, one without
\* a build status and one with.
C17_Witness ==
    /\ pc = "done" /\ stream = "none" /\ cycle > 0
    /\ Len(printed) = 2 /\ printed[1][2] = "" /\ printed[2][2] # ""

\* get_build_status has returned for a commit whose check runs were listed.
Reduced == status # "Unset" /\ answer = Answered

\* What the claim gives as the contribution of one check run.
Contribution(x) ==
    IF x.status = "queued" THEN None
    ELSE IF x.status = "in_progress" THEN "InProgress"
    ELSE IF x.status = "completed" /\ x.conclusion = "success" THEN "Success"
    ELSE "Failure"

\* C18: a queued run contributes nothing, an in_progress run InProgress, a
\* completed run Success with conclusion success and Failure with any other
\* or no conclusion, a run of any other status Failure: the result for a
\* single run is its contribution, the result for a list is one of the
\* contributions, and no status string makes the call fail.
C18_RunContribution ==
    Reduced =>
        /\ status # FetchErr
        /\ Len(runs) = 1 => status = Contribution(runs[1])
        /\ status # None => \E i \in 1..Len(runs) : status = Contribution(runs[i])

\* Single runs of an unknown status and completed without conclusion gave Failure.
C18_Witness ==
    /\ Reduced /\ Len(runs) = 1 /\ status = "Failure"
    /\ runs[1].status = "waiting" \/ (runs[1].status = "completed" /\ runs[1].conclusion = None)

\* C19: get_build_status returns None exactly when there is no latest commit,
\* the commit has no check run, or every run is queued; and the queued runs
\* of a list do not change the result of the other runs.
C19_NoneIffNothingToReport ==
    (status # "Unset" /\ status # FetchErr) =>
        /\ status = None <=>
             \/ answer.commit = "None"
             \/ \A i \in 1..Len(runs) : runs[i].status = "queued"
        /\ LET others == SelectSeq(runs, LAMBDA x : x.status # "queued") IN
           status = get_build_status(
                        [commit |-> answer.commit, check_runs |-> answer.check_runs,
                         runs |-> others]).val

\* A list with a queued run before and after a running one gave InProgress.
C19_Witness ==
    /\ Reduced /\ Len(runs) = 3 /\ status = "InProgress"
    /\ runs[1].status = "queued" /\ runs[2].status = "in_progress"
    /\ runs[3].status = "queued"

\* C20: the reduction gives the same result for every permutation of the list
\* of check runs.
C20_OrderInvariant ==
    Reduced =>
        \A p \in Permutations(1..Len(runs)) :
            get_build_status(Runs([i \in 1..Len(runs) |-> runs[p[i]]])).val = status

\* A list of a passed, a failed and a running run, in this order.
C20_Witness ==
    /\ Reduced /\ Len(runs) = 3
    /\ Contribution(runs[1]) = "Success" /\ Contribution(runs[2]) = "Failure"
    /\ Contribution(runs[3]) = "InProgress"

\* C21: migrate is idempotent. Whatever the file holds and however often it
\* has run before, a migrate run returns Ok, leaves the file with the
\* repositories table and no other, and leaves the rows stored in it as they
\* were before the run.
C21_MigrateIdempotent ==
    call.op = "migrate" =>
        /\ ret.state = "Ok"
        /\ tables = {"repositories"}
        /\ db = dbAtStart

\* A migrate has run on a file whose table already held rows: a repeated run.
C21_Witness ==
    /\ call.op = "migrate" /\ ret.state = "Ok"
    /\ dbAtStart # <<>> /\ db = dbAtStart

\* C22: parsing a repository id succeeds exactly when the text holds a '/'
\* with a non-empty rest after the first one; the owner is then the text
\* before the first '/' and the name everything after it, further '/'
\* included. Every other text fails with the "Expecting in `:owner/:name`
\* format" error.
C22_SplitsAtFirstSlash ==
    id # NotParsed =>
        LET n == Len(text)
            first == {i \in 1..n : text[i] = "/" /\ \A j \in 1..(i - 1) : text[j] # "/"}
        IN IF \E i \in first : i < n
           THEN \A i \in first :
                    /\ id.state = "Ok"
                    /\ id.owner = [j \in 1..(i - 1) |-> text[j]]
                    /\ id.name = [j \in 1..(n - i) |-> text[i + j]]
           ELSE id.state = "Expecting in :owner/:name format"

\* A text with two separators has been parsed into an owner and a name that
\* holds the second separator.
C22_Witness ==
    /\ id.state = "Ok"
    /\ \E i \in 1..Len(id.name) : id.name[i] = "/"
    /\ Len(id.owner) > 0

\* C23: for a threshold of at least 3 and a text of more characters than the
\* threshold, what ellipsize returns ends with "...".
C23_EndsWithEllipsis ==
    (ellipsized.state = "done" /\ threshold >= 3 /\ Len(text) > threshold) =>
        ends_with(ellipsized.val, <<".", ".", ".">>)

\* C24: the status fetcher runs fetches in parallel: with at least two
\* repositories a second get_build_status can start before the first one has
\* completed. Whenever a fetch is in flight, a repository is left to take and
\* try_for_each_concurrent is below its limit, the next fetch can start, so
\* that two fetches are in flight at the same time.
C24_SecondFetchCanStart ==
    (producer = "running" /\ fetching # {} /\ idx < Len(repos)
        /\ BelowLimit(futures))
    => ENABLED StartFetch

\* C25: the channel of update_build_statuses never holds more than 32
\* undelivered (repository, status) pairs, in any reachable state: a send
\* that finds it full is not added to it before the collector has received.
C25_ChannelBounded == Len(chan) <= ChannelCapacity

\* The channel is full and as many sends as try_for_each_concurrent admits
\* wait for the collector.
C25_Witness ==
    /\ Len(chan) = ChannelCapacity /\ Len(futures) = ConcurrencyLimit
    /\ collector = "running"

\* C26: the pagination streams never prefetch: a page request is issued only
\* when every item of the page received before it has been yielded and no
\* other page request is awaiting its answer.
C26_NoPrefetch ==
    [][requests' # requests =>
          /\ buf = <<>>
          /\ Len(requests) = Len(responses)
          /\ Len(requests') = Len(responses) + 1]_vars

\* A later page has been requested after the two items of a page before it
\* were yielded, and its answer is awaited.
C26_Witness ==
    /\ spos = "awaiting" /\ Len(requests) > 1 /\ buf = <<>>
    /\ \E i \in 1..Len(responses) :
         /\ responses[i].ok /\ responses[i].page <= Len(ghPages)
         /\ Len(ghPages[responses[i].page]) = 2
         /\ Ok(ghPages[responses[i].page][2]) \in {out[k] : k \in 1..Len(out)}

\* C27: the streams have no built-in maximum page: while the remote keeps
\* reporting a next page, the cursor after page n is n + 1 for every n, and
\* the stream neither overflows, wraps around nor aborts.
C27_CursorAdvances ==
    /\ spos # "panicked"
    /\ \A i \in 1..(Len(requests) - 1) :
         requests[i].given => requests[i + 1] = [given |-> TRUE, page |-> requests[i].page + 1]

\* C29: with the remote numbering its pages from 1, the try_unfold streams
\* (list_owned_repositories, list_user_issues) never request the same remote
\* page twice: the request after the initial one asks for page 2, and no two
\* requests of a run are answered with the same page.
C29_NoPageTwice ==
    stream \in {"list_owned_repositories", "list_user_issues"} =>
        /\ Len(requests) >= 2 => ServedPage(requests[2]) = 2
        /\ \A i, j \in 1..Len(requests) :
             i < j => ServedPage(requests[i]) # ServedPage(requests[j])

\* C28: a successful update_dashboard cycle runs the list sync, the status
\* fetch, set_build_statuses and the rendering in this order and each once:
\* what is printed is the table the cycle found, with the listing put into it
\* and then the collected statuses set in it, so every status persisted in the
\* cycle is printed on the line of its repository.
C28_PrintsAfterCommit ==
    (pc = "done" /\ result = "Ok" /\ stream = "list_owned_repositories") =>
        LET listing == [i \in 1..Len(out) |-> try_from(out[i].item).val]
            synced == put_repositories(dbAtStart, listing)
        IN /\ dbAtFetch = synced
           /\ db = set_build_statuses(synced, bss)
           /\ printed = Lines(get_dashboard_repositories(db, github_username))
           /\ \A i \in 1..Len(bss) :
                \E k \in 1..Len(printed) :
                    printed[k] = <<bss[i].r.name, to_string(bss[i].s)>>

\* A cycle has ended with Ok after it listed a repository that the cache did
\* not hold, persisted a status for it and printed it.
C28_Witness ==
    /\ pc = "done" /\ result = "Ok" /\ stream = "list_owned_repositories"
    /\ bss # <<>> /\ Len(dbAtFetch) > Len(dbAtStart)
    /\ \E k \in 1..Len(printed) : printed[k][2] # ""

\* C30: update_build_statuses terminates when every fetch terminates: in every
\* fair run, with or without a failing fetch and with more results than the
\* channel holds, the producer eventually drops its senders, the collector
\* eventually finds the channel closed and returns, so that collector.await
\* of update_build_statuses returns: no task is left waiting on the channel.
C30_Terminates == <>(producer \in {"ok", "err"} /\ collector = "done")

\* Both tasks have returned after the collector received more pairs than the
\* channel holds.
C30_Witness ==
    /\ collector = "done" /\ producer = "ok"
    /\ Len(vs) > ChannelCapacity /\ Len(repos) > ChannelCapacity

====
